---- MODULE Spec2Model ----
(***************************************************************************)
(* Multi-tenant gateway: session stores, prompt relay and token            *)
(* verification of opencode-multi-tenant.                                  *)
(*                                                                         *)
(* One behaviour models one deployment: `impl` is the session store the    *)
(* deployment is wired to (ApiApp -> SessionManager, Worker -> the         *)
(* in-memory fallback or the SQLite durable object, the SDK-based          *)
(* OpenCodeService with its own map, worker.ts's /sessions routes).        *)
(***************************************************************************)
EXTENDS Integers, Sequences, FiniteSets, TLC

(* ----------------------------- bounds --------------------------------- *)
\* Date.now() ranges over 0..MaxClock (milliseconds)
MaxClock == 1
\* at most MaxSessions createSession calls per store instance
MaxSessions == 2
\* at most MaxMessages messages are stored per store instance
MaxMessages == 2
\* at most MaxRelaySessions sessions are created where prompts are relayed
MaxRelaySessions == 1

(* --------------------------- input sets -------------------------------- *)
Users == {"u1", "u2"}

SessionManagerImpl == "SessionManager"
InMemoryImpl == "InMemorySessionStore"
DurableObjectImpl == "SessionDurableObject"
SdkImpl == "OpenCodeServiceSdk"
WorkerStubImpl == "handleSessionRoute"

\* the stores that implement the SessionDurableObjectState interface
StateImpls == {InMemoryImpl, DurableObjectImpl}
Impls == {SessionManagerImpl, InMemoryImpl, DurableObjectImpl, SdkImpl, WorkerStubImpl}

\* Values an operation returns or throws. Each kind of value is a record with
\* a field of its own, so that any two results can be compared.
Undefined == [nothing |-> "undefined"]
Null == [nothing |-> "null"]
Bool(b) == [bool |-> b]
Throw(message) == [throw |-> message]
IsThrow(r) == "throw" \in DOMAIN r

\* a session id no store ever allocates ('non-existent-session' in the tests)
NonExistentId == <<"non-existent">>

\* the Worker is handling no request
NoContext == [pc |-> "none"]


(* ------------------------------ state ---------------------------------- *)
VARIABLES
  impl,           \* the session store this deployment is wired to
  clock,          \* the wall clock read by Date.now(), in milliseconds
  sessions,       \* the sessions Map / the sessions table: id -> session
  idCounter,      \* SessionManager.idCounter
  sessionCounter, \* InMemorySessionStore.sessionCounter, OpenCodeService.sessionCounter
  messages,       \* InMemorySessionStore.messages: id -> array of messages
  messagesTable,  \* the SQLite messages table, rows in rowid (AUTOINCREMENT) order
  randomDraws,    \* number of Math.random() suffixes drawn so far
  sdkIssued,      \* ids the OpenCode SDK has returned from session.create
  calls,          \* the sendPrompt calls: call -> frame
  accepted,       \* history variable: id -> the addMessage calls the store accepted, in order
  createdBy,      \* history variable: id -> the user whose createSession first returned it
  authHeader,     \* the Authorization header handed to the token verifier
  authResult,     \* what the verifier or auth middleware last answered for authHeader
  context,        \* the Hono context `c` of the request the Worker is handling
  httpResponse,   \* the response the Worker sent last
  userIds,        \* the user ids handed to UserStorage / SandboxManager by its callers
  dirs,           \* the directories that exist under UserStorage.baseDir
  files,          \* the files under baseDir: <<directory, name>> -> content
  getSandboxCalls \* the ids SandboxManager has passed to getSandbox, with the workspace made there

storeVars == <<sessions, idCounter, sessionCounter, messages, messagesTable, randomDraws, sdkIssued>>
ghostVars == <<accepted, createdBy>>
authVars == <<authHeader, authResult, context, httpResponse>>
userVars == <<userIds, dirs, files, getSandboxCalls>>
vars == <<impl, clock, sessions, idCounter, sessionCounter, messages, messagesTable,
          randomDraws, sdkIssued, calls, accepted, createdBy, authHeader, authResult,
          context, httpResponse, userIds, dirs, files, getSandboxCalls>>

(* ----------------------------- helpers --------------------------------- *)
EmptyMap == [x \in {} |-> x]
Put(f, k, v) == [x \in (DOMAIN f) \cup {k} |-> IF x = k THEN v ELSE f[x]]
Remove(f, k) == [x \in (DOMAIN f) \ {k} |-> f[x]]
Get(f, k, default) == IF k \in DOMAIN f THEN f[k] ELSE default

\* Math.floor(Date.now() / 1000): the clock ticks in seconds
MsPerSecond == 1000

\* Date.now()
DateNow == clock * MsPerSecond

\* the ids a caller can present: every id ever allocated, and one never allocated
KnownIds == (DOMAIN createdBy) \cup {NonExistentId}


RECURSIVE SumLen(_, _)
SumLen(f, ids) ==
  IF ids = {} THEN 0
  ELSE LET id == CHOOSE x \in ids : TRUE IN Len(f[id]) + SumLen(f, ids \ {id})

\* number of messages the store holds (bounded by MaxMessages)
StoredMessages == SumLen(accepted, DOMAIN accepted)

\* the message a direct addMessage caller passes: contents are opaque to the
\* stores, so the n-th message a store holds is named after n, which makes
\* any reordering visible
DirectMessages ==
  {[role |-> IF StoredMessages % 2 = 0 THEN "user" ELSE "assistant",
    content |-> "m" \o ToString(StoredMessages + 1)]}

\* a message as getConversationHistory returns it
Plain(m) == [role |-> m.role, content |-> m.content]
PlainSeq(q) == [i \in 1..Len(q) |-> Plain(q[i])]
History(q) == [history |-> q]
Tagged(message, call) == [role |-> message.role, content |-> message.content, by |-> call]

\* the sessions of S as an array, in the order in which a Map that was filled by
\* a counter-numbered createSession iterates them (the last component of the id)
RECURSIVE InsertionOrder(_)
InsertionOrder(S) ==
  IF S = {} THEN <<>>
  ELSE LET first == CHOOSE x \in S : \A y \in S : x.id[Len(x.id)] <= y.id[Len(y.id)]
       IN <<first>> \o InsertionOrder(S \ {first})

\* history variables, kept alike by every store
NoteCreated(id, userId) ==
  /\ createdBy' = IF id \in DOMAIN createdBy THEN createdBy ELSE Put(createdBy, id, userId)
  /\ accepted' = Put(accepted, id, <<>>)
NoteDeleted(sessionId, deleted) ==
  /\ accepted' = IF deleted THEN Remove(accepted, sessionId) ELSE accepted
  /\ UNCHANGED createdBy
NoteAccepted(sessionId, message, by, ok) ==
  /\ accepted' = IF ok THEN Put(accepted, sessionId, Append(accepted[sessionId], Tagged(message, by)))
                 ELSE accepted
  /\ UNCHANGED createdBy

(* ------------------- SessionManager (api/app.ts's store) ---------------- *)
\* `session-${this.idCounter++}`
SessionManager_newId == <<"session", idCounter>>

SessionManager_owned(sessionId, userId) ==
  sessionId \in DOMAIN sessions /\ sessions[sessionId].userId = userId

SessionManager_newSession(userId) ==
  [id |-> SessionManager_newId, userId |-> userId, createdAt |-> DateNow]

SessionManager_getSession_result(sessionId, userId) ==
  IF SessionManager_owned(sessionId, userId) THEN sessions[sessionId] ELSE Undefined

\* deleteSession is declared `void`: whatever it did, the caller gets undefined
SessionManager_deleteSession_result(sessionId, userId) == Undefined

\* a delete that looks the id up without comparing the owner
SessionManager_deleteSession_sessions_anyUser(sessionId, userId) == Remove(sessions, sessionId)

SessionManager_deleteSession_sessions(sessionId, userId) ==
  IF SessionManager_owned(sessionId, userId) THEN Remove(sessions, sessionId) ELSE sessions

SessionManager_createSession ==
  /\ impl = SessionManagerImpl
  /\ idCounter < MaxSessions
  /\ \E userId \in Users :
       /\ sessions' = Put(sessions, SessionManager_newId, SessionManager_newSession(userId))
       /\ idCounter' = idCounter + 1
       /\ NoteCreated(SessionManager_newId, userId)
  /\ UNCHANGED <<authVars, impl, userVars, clock, sessionCounter, messages, messagesTable, randomDraws, sdkIssued, calls>>

\* a read: whatever the arguments, the caller gets
\* SessionManager_getSession_result and nothing changes
SessionManager_getSession ==
  /\ impl = SessionManagerImpl
  /\ \A sessionId \in KnownIds, userId \in Users :
       SessionManager_getSession_result(sessionId, userId) \in {Undefined} \cup {sessions[id] : id \in DOMAIN sessions}
  /\ UNCHANGED vars

SessionManager_deleteSession ==
  /\ impl = SessionManagerImpl
  /\ \E sessionId \in KnownIds, userId \in Users :
       /\ sessions' = SessionManager_deleteSession_sessions(sessionId, userId)
       /\ NoteDeleted(sessionId, SessionManager_owned(sessionId, userId))
  /\ UNCHANGED <<authVars, impl, userVars, clock, idCounter, sessionCounter, messages, messagesTable,
                 randomDraws, sdkIssued, calls>>


(* ------------- InMemorySessionStore (Worker's local fallback) ----------- *)
\* `opencode-${Date.now()}-${this.sessionCounter++}`
InMemory_newId == <<"opencode", DateNow, sessionCounter>>

InMemory_owned(sessionId, userId) ==
  sessionId \in DOMAIN sessions /\ sessions[sessionId].userId = userId

InMemory_newSession(userId) == [id |-> InMemory_newId, userId |-> userId, createdAt |-> DateNow]

InMemory_createSession_sessions(userId) == Put(sessions, InMemory_newId, InMemory_newSession(userId))
InMemory_createSession_messages(userId) == Put(messages, InMemory_newId, <<>>)

InMemory_getSession_result(sessionId, userId) ==
  IF InMemory_owned(sessionId, userId) THEN sessions[sessionId] ELSE Null

InMemory_deleteSession_result(sessionId, userId) == Bool(InMemory_owned(sessionId, userId))

InMemory_deleteSession_sessions(sessionId, userId) ==
  IF InMemory_owned(sessionId, userId) THEN Remove(sessions, sessionId) ELSE sessions

InMemory_deleteSession_messages(sessionId, userId) ==
  IF InMemory_owned(sessionId, userId) THEN Remove(messages, sessionId) ELSE messages

\* Array.from(this.sessions.values()).filter(s => s.userId === userId):
\* a Map iterates in insertion order, which is the order of the counter in the id
InMemory_listUserSessions_result(userId) ==
  [list |-> InsertionOrder({sessions[id] : id \in {x \in DOMAIN sessions : sessions[x].userId = userId}})]

InMemory_addMessage_result(sessionId, userId) ==
  IF ~InMemory_owned(sessionId, userId)
  THEN Throw("Session not found or access denied")
  ELSE Undefined

\* const history = this.messages.get(sessionId) || []; history.push(message);
\* this.messages.set(sessionId, history)
InMemory_addMessage_messages(sessionId, userId, message) ==
  IF ~InMemory_owned(sessionId, userId)
  THEN messages
  ELSE Put(messages, sessionId, Append(Get(messages, sessionId, <<>>), message))

InMemory_getConversationHistory_result(sessionId, userId) ==
  IF ~InMemory_owned(sessionId, userId)
  THEN History(<<>>)
  ELSE History(Get(messages, sessionId, <<>>))

(* ---------------- SessionDurableObject (SQLite backend) ----------------- *)
\* `opencode-${Date.now()}-${Math.random().toString(36).substring(2, 11)}`:
\* the k-th random suffix drawn is the value k, a suffix is never drawn twice
DurableObject_newId == <<"opencode", DateNow, randomDraws>>

DurableObject_newSession(userId) ==
  [id |-> DurableObject_newId, userId |-> userId, createdAt |-> DateNow]

\* INSERT INTO sessions (id, user_id, created_at): the primary key rejects an
\* id that is already in the table, and createSession then throws
DurableObject_createSession_throws == DurableObject_newId \in DOMAIN sessions

DurableObject_createSession_sessions(userId) ==
  IF DurableObject_createSession_throws
  THEN sessions
  ELSE Put(sessions, DurableObject_newId, DurableObject_newSession(userId))

\* the same SELECT without `AND user_id = ?`
DurableObject_select_anyUser(sessionId, userId) ==
  {sessions[id] : id \in {x \in DOMAIN sessions : x = sessionId}}
\* SELECT id, user_id, created_at FROM sessions WHERE id = ? AND user_id = ?
DurableObject_select(sessionId, userId) ==
  {sessions[id] : id \in {x \in DOMAIN sessions : x = sessionId /\ sessions[x].userId = userId}}

DurableObject_getSession_result(sessionId, userId) ==
  LET results == DurableObject_select(sessionId, userId)
  IN IF results = {} THEN Null ELSE CHOOSE row \in results : TRUE

DurableObject_deleteSession_result(sessionId, userId) ==
  Bool(DurableObject_getSession_result(sessionId, userId) # Null)

\* DELETE FROM sessions WHERE id = ?
DurableObject_deleteSession_sessions(sessionId, userId) ==
  IF DurableObject_getSession_result(sessionId, userId) = Null
  THEN sessions
  ELSE Remove(sessions, sessionId)

\* the DELETE without the cascade to the messages table
DurableObject_deleteSession_messagesTable_noCascade(sessionId, userId) == messagesTable
\* FOREIGN KEY (session_id) REFERENCES sessions(id) ON DELETE CASCADE
DurableObject_deleteSession_messagesTable(sessionId, userId) ==
  IF DurableObject_getSession_result(sessionId, userId) = Null
  THEN messagesTable
  ELSE SelectSeq(messagesTable, LAMBDA row : row.session_id # sessionId)

DurableObject_addMessage_result(sessionId, userId) ==
  IF DurableObject_getSession_result(sessionId, userId) = Null
  THEN Throw("Session not found or access denied")
  ELSE Undefined

\* INSERT INTO messages (session_id, role, content, created_at) VALUES (?, ?, ?, Date.now())
DurableObject_addMessage_messagesTable(sessionId, userId, message) ==
  IF DurableObject_getSession_result(sessionId, userId) = Null
  THEN messagesTable
  ELSE Append(messagesTable, [session_id |-> sessionId, role |-> message.role,
                              content |-> message.content, created_at |-> DateNow])

\* the rows WHERE session_id = ?, in rowid order
DurableObject_rows(sessionId) ==
  SelectSeq(messagesTable, LAMBDA row : row.session_id = sessionId)

Arrangements(n) == {p \in [1..n -> 1..n] : \A i, j \in 1..n : i # j => p[i] # p[j]}

\* ORDER BY created_at ASC: every arrangement of the rows with ascending
\* created_at; SQL leaves the order of rows with equal keys open
DurableObject_orderByCreatedAt(rows) ==
  {[i \in 1..Len(rows) |-> rows[p[i]]] :
     p \in {q \in Arrangements(Len(rows)) :
              \A i, j \in 1..Len(rows) : i < j => rows[q[i]].created_at <= rows[q[j]].created_at}}

\* the arrays getConversationHistory can return
DurableObject_getConversationHistory_results(sessionId, userId) ==
  IF DurableObject_getSession_result(sessionId, userId) = Null
  THEN {History(<<>>)}
  ELSE {History(PlainSeq(rows)) : rows \in DurableObject_orderByCreatedAt(DurableObject_rows(sessionId))}

\* SELECT ... FROM sessions WHERE user_id = ? ORDER BY created_at DESC
DurableObject_listUserSessions_results(userId) ==
  LET mine == {sessions[id] : id \in {x \in DOMAIN sessions : sessions[x].userId = userId}}
      n == Cardinality(mine)
  IN {[list |-> q] : q \in {r \in [1..n -> mine] :
         /\ \A i, j \in 1..n : i # j => r[i] # r[j]
         /\ \A i, j \in 1..n : i < j => r[i].createdAt >= r[j].createdAt}}


(* ------------- OpenCodeService over the OpenCode SDK (own map) ---------- *)
\* what client.session.create returns as `id`: nothing, or a string that the
\* SDK has not returned before
SdkNoId == <<"">>
SdkIds == {<<"opencode-session", 0>>, <<"opencode", 0>>}

\* sdkSession.id || `opencode-${this.sessionCounter++}`
Sdk_newId(sdkId) == IF sdkId # SdkNoId THEN sdkId ELSE <<"opencode", sessionCounter>>

Sdk_newSession(userId, sdkId) ==
  [id |-> Sdk_newId(sdkId), userId |-> userId, model |-> "gpt-4o", createdAt |-> DateNow]

\* this.sessions.set(session.id, session)
Sdk_createSession_sessions(userId, sdkId) ==
  Put(sessions, Sdk_newId(sdkId), Sdk_newSession(userId, sdkId))

Sdk_owned(sessionId, userId) ==
  sessionId \in DOMAIN sessions /\ sessions[sessionId].userId = userId

Sdk_getSession_result(sessionId, userId) ==
  IF Sdk_owned(sessionId, userId) THEN sessions[sessionId] ELSE Undefined

Sdk_deleteSession_result(sessionId, userId) == Bool(Sdk_owned(sessionId, userId))

\* a delete that answers without removing the entry
Sdk_deleteSession_sessions_keep(sessionId, userId) == sessions

Sdk_deleteSession_sessions(sessionId, userId) ==
  IF Sdk_owned(sessionId, userId) THEN Remove(sessions, sessionId) ELSE sessions

\* what sendPrompt answers before it calls the SDK: the Error it throws, or
\* Undefined when it goes on to client.session.prompt
Sdk_sendPrompt_check(sessionId, userId) ==
  IF sessionId \notin DOMAIN sessions
  THEN Throw("Session not found")
  ELSE IF sessions[sessionId].userId # userId
       THEN Throw("Session not found or access denied")
       ELSE Undefined

Sdk_createSession ==
  /\ impl = SdkImpl
  /\ sessionCounter + Cardinality(sdkIssued) < MaxSessions
  /\ \E userId \in Users, sdkId \in (SdkIds \ sdkIssued) \cup {SdkNoId} :
       /\ sessions' = Sdk_createSession_sessions(userId, sdkId)
       /\ sessionCounter' = IF sdkId = SdkNoId THEN sessionCounter + 1 ELSE sessionCounter
       /\ sdkIssued' = IF sdkId = SdkNoId THEN sdkIssued ELSE sdkIssued \cup {sdkId}
       /\ NoteCreated(Sdk_newId(sdkId), userId)
  /\ UNCHANGED <<authVars, impl, userVars, clock, idCounter, messages, messagesTable, randomDraws, calls>>

\* a read: whatever the arguments, the caller gets Sdk_getSession_result and
\* nothing changes
Sdk_getSession ==
  /\ impl = SdkImpl
  /\ \A sessionId \in KnownIds, userId \in Users :
       Sdk_getSession_result(sessionId, userId) \in {Undefined} \cup {sessions[id] : id \in DOMAIN sessions}
  /\ UNCHANGED vars

Sdk_deleteSession ==
  /\ impl = SdkImpl
  /\ \E sessionId \in KnownIds, userId \in Users :
       /\ sessions' = Sdk_deleteSession_sessions(sessionId, userId)
       /\ NoteDeleted(sessionId, Sdk_owned(sessionId, userId))
  /\ UNCHANGED <<authVars, impl, userVars, clock, idCounter, sessionCounter, messages, messagesTable,
                 randomDraws, sdkIssued, calls>>

\* sendPrompt: the ownership check, then `await this.client.session.prompt(...)`,
\* which changes nothing in this service
Sdk_sendPrompt ==
  /\ impl = SdkImpl
  /\ \A sessionId \in KnownIds, userId \in Users :
       Sdk_sendPrompt_check(sessionId, userId) = Undefined \/ IsThrow(Sdk_sendPrompt_check(sessionId, userId))
  /\ UNCHANGED vars


(* --------- handleSessionRoute (worker.ts: the /sessions routes) --------- *)
\* id: `session_${Date.now()}`
handleSessionRoute_newId == <<"session_", DateNow>>

\* POST /sessions answers 201 {id, userId, createdAt} and stores nothing
handleSessionRoute_postSessions ==
  /\ impl = WorkerStubImpl
  /\ \E userId \in Users : NoteCreated(handleSessionRoute_newId, userId)
  /\ UNCHANGED <<authVars, impl, userVars, clock, storeVars, calls>>


\* GET /sessions: Response.json({ sessions: [] }), whoever asks
handleSessionRoute_getSessions_result(userId) == [list |-> <<>>]

\* a read: the caller gets handleSessionRoute_getSessions_result
handleSessionRoute_getSessions ==
  /\ impl = WorkerStubImpl
  /\ \A userId \in Users : handleSessionRoute_getSessions_result(userId).list = <<>>
  /\ UNCHANGED vars


(* ---- OpenCodeService over a SessionDurableObjectState (Worker's service) ---- *)
\* this.sessionDurableObject is the in-memory store or the durable object stub
Store_newId == IF impl = InMemoryImpl THEN InMemory_newId ELSE DurableObject_newId

Store_newSession(userId) ==
  IF impl = InMemoryImpl THEN InMemory_newSession(userId) ELSE DurableObject_newSession(userId)

Store_getSession_result(sessionId, userId) ==
  IF impl = InMemoryImpl
  THEN InMemory_getSession_result(sessionId, userId)
  ELSE DurableObject_getSession_result(sessionId, userId)

Store_deleteSession_result(sessionId, userId) ==
  IF impl = InMemoryImpl
  THEN InMemory_deleteSession_result(sessionId, userId)
  ELSE DurableObject_deleteSession_result(sessionId, userId)

Store_addMessage_result(sessionId, userId) ==
  IF impl = InMemoryImpl
  THEN InMemory_addMessage_result(sessionId, userId)
  ELSE DurableObject_addMessage_result(sessionId, userId)

Store_getConversationHistory_results(sessionId, userId) ==
  IF impl = InMemoryImpl
  THEN {InMemory_getConversationHistory_result(sessionId, userId)}
  ELSE DurableObject_getConversationHistory_results(sessionId, userId)

Store_listUserSessions_results(userId) ==
  IF impl = InMemoryImpl
  THEN {InMemory_listUserSessions_result(userId)}
  ELSE DurableObject_listUserSessions_results(userId)

\* the store after createSession(userId)
Store_createSession(userId) ==
  /\ IF impl = InMemoryImpl
     THEN /\ sessionCounter < MaxSessions
          /\ sessions' = InMemory_createSession_sessions(userId)
          /\ messages' = InMemory_createSession_messages(userId)
          /\ sessionCounter' = sessionCounter + 1
          /\ UNCHANGED <<messagesTable, randomDraws>>
     ELSE /\ randomDraws < MaxSessions
          /\ sessions' = DurableObject_createSession_sessions(userId)
          /\ randomDraws' = randomDraws + 1
          /\ UNCHANGED <<messages, messagesTable, sessionCounter>>
  /\ NoteCreated(Store_newId, userId)
  /\ UNCHANGED <<idCounter, sdkIssued>>

\* the store after deleteSession(sessionId, userId)
Store_deleteSession(sessionId, userId) ==
  /\ IF impl = InMemoryImpl
     THEN /\ sessions' = InMemory_deleteSession_sessions(sessionId, userId)
          /\ messages' = InMemory_deleteSession_messages(sessionId, userId)
          /\ UNCHANGED messagesTable
     ELSE /\ sessions' = DurableObject_deleteSession_sessions(sessionId, userId)
          /\ messagesTable' = DurableObject_deleteSession_messagesTable(sessionId, userId)
          /\ UNCHANGED messages
  /\ NoteDeleted(sessionId, Store_deleteSession_result(sessionId, userId) = Bool(TRUE))
  /\ UNCHANGED <<idCounter, sessionCounter, randomDraws, sdkIssued>>

\* the store after addMessage(sessionId, userId, message), made by caller `by`
Store_addMessage(sessionId, userId, message, by) ==
  /\ IF impl = InMemoryImpl
     THEN /\ messages' = InMemory_addMessage_messages(sessionId, userId, message)
          /\ UNCHANGED messagesTable
     ELSE /\ messagesTable' = DurableObject_addMessage_messagesTable(sessionId, userId, message)
          /\ UNCHANGED messages
  /\ NoteAccepted(sessionId, message, by, ~IsThrow(Store_addMessage_result(sessionId, userId)))
  /\ UNCHANGED <<sessions, idCounter, sessionCounter, randomDraws, sdkIssued>>

\* getSession that looks the id up without comparing the owner
OpenCodeService_getSession_result_anyUser(sessionId, userId) ==
  IF sessionId \in DOMAIN sessions THEN sessions[sessionId] ELSE Undefined
\* OpenCodeService.getSession: `await store.getSession(...) || undefined`
OpenCodeService_getSession_result(sessionId, userId) ==
  LET r == Store_getSession_result(sessionId, userId)
  IN IF r = Null THEN Undefined ELSE r

OpenCodeService_createSession ==
  /\ impl \in StateImpls
  /\ \E userId \in Users : Store_createSession(userId)
  /\ UNCHANGED <<authVars, impl, userVars, clock, calls>>

\* a read: whatever the arguments, the caller gets
\* OpenCodeService_getSession_result and nothing changes
OpenCodeService_getSession ==
  /\ impl \in StateImpls
  /\ \A sessionId \in KnownIds, userId \in Users :
       OpenCodeService_getSession_result(sessionId, userId) \in {Undefined} \cup {sessions[id] : id \in DOMAIN sessions}
  /\ UNCHANGED vars

OpenCodeService_deleteSession ==
  /\ impl \in StateImpls
  /\ \E sessionId \in KnownIds, userId \in Users : Store_deleteSession(sessionId, userId)
  /\ UNCHANGED <<authVars, impl, userVars, clock, calls>>

\* a read: the caller gets one of Store_listUserSessions_results
OpenCodeService_listUserSessions ==
  /\ impl \in StateImpls
  /\ \A userId \in Users : Store_listUserSessions_results(userId) # {}
  /\ UNCHANGED vars

\* a read: the caller gets one of Store_getConversationHistory_results
OpenCodeService_getConversationHistory ==
  /\ impl \in StateImpls
  /\ \A sessionId \in KnownIds, userId \in Users :
       Store_getConversationHistory_results(sessionId, userId) # {}
  /\ UNCHANGED vars

\* the store's addMessage, called directly (the interface exposes it)
SessionStore_addMessage ==
  /\ impl \in StateImpls
  /\ \E sessionId \in KnownIds, userId \in Users, message \in DirectMessages :
       /\ IsThrow(Store_addMessage_result(sessionId, userId)) \/ StoredMessages < MaxMessages
       /\ Store_addMessage(sessionId, userId, message, "direct")
  /\ UNCHANGED <<authVars, impl, userVars, clock, calls>>


(* ------------- OpenCodeService.sendPrompt: the prompt relay ------------- *)
\* the sendPrompt calls of a behaviour; each is made once
Calls == {"c1", "c2"}

\* the prompt text a call carries
CallPrompt(call) == IF call = "c1" THEN "p1" ELSE "p2"

\* what fetch() to the upstream endpoint can end in
UpstreamOutcomes == {"ok", "network_error", "http_error", "no_choices"}

NoId == <<>>
IdleFrame == [pc |-> "idle", sessionId |-> NoId, userId |-> "", prompt |-> "",
              conversationHistory |-> <<>>, response |-> ""]
\* a call that returned or threw: its locals are gone, what is left is the
\* { text: response } it returned
DoneFrame(pc) == [IdleFrame EXCEPT !.pc = pc]

\* callOpenCodeAPI never throws: its catch turns every failure into a marker text
callOpenCodeAPI(outcome) ==
  CASE outcome = "ok" -> "reply"
    [] outcome = "http_error" -> "[error] OpenCode API error"
    [] outcome = "no_choices" -> "[error] Invalid response format from OpenCode API"
    [] OTHER -> "[error] fetch failed"

\* { role: 'user', content: prompt }
UserMessage(prompt) == [role |-> "user", content |-> prompt]

\* the reply stored under the role of the prompt
AssistantMessage_asUser(response) == [role |-> "user", content |-> response]
\* { role: 'assistant', content: response }
AssistantMessage(response) == [role |-> "assistant", content |-> response]

\* const session = await getSession(sessionId, userId); if (!session) throw
OpenCodeService_sendPrompt_check(sessionId, userId) ==
  IF Store_getSession_result(sessionId, userId) = Null
  THEN Throw("Session not found or access denied")
  ELSE Undefined

sendPrompt_call(call) ==
  /\ impl \in StateImpls
  /\ calls[call].pc = "idle"
  /\ \E sessionId \in KnownIds, userId \in Users :
       calls' = [calls EXCEPT ![call] = [IdleFrame EXCEPT !.pc = "getSession",
                    !.sessionId = sessionId, !.userId = userId, !.prompt = CallPrompt(call)]]
  /\ UNCHANGED <<authVars, impl, userVars, clock, storeVars, ghostVars>>

sendPrompt_getSession(call) ==
  LET f == calls[call] IN
  /\ f.pc = "getSession"
  /\ calls' = [calls EXCEPT ![call] =
       IF IsThrow(OpenCodeService_sendPrompt_check(f.sessionId, f.userId))
       THEN DoneFrame("threw")
       ELSE [f EXCEPT !.pc = "addUserMessage"]]
  /\ UNCHANGED <<authVars, impl, userVars, clock, storeVars, ghostVars>>

sendPrompt_addUserMessage(call) ==
  LET f == calls[call] IN
  /\ f.pc = "addUserMessage"
  /\ Store_addMessage(f.sessionId, f.userId, UserMessage(f.prompt), call)
  /\ calls' = [calls EXCEPT ![call] =
       IF IsThrow(Store_addMessage_result(f.sessionId, f.userId))
       THEN DoneFrame("threw")
       ELSE [f EXCEPT !.pc = "getConversationHistory"]]
  /\ UNCHANGED <<authVars, impl, userVars, clock>>

sendPrompt_getConversationHistory(call) ==
  LET f == calls[call] IN
  /\ f.pc = "getConversationHistory"
  /\ \E h \in Store_getConversationHistory_results(f.sessionId, f.userId) :
       calls' = [calls EXCEPT ![call] =
                   [f EXCEPT !.pc = "callOpenCodeAPI", !.conversationHistory = h.history]]
  /\ UNCHANGED <<authVars, impl, userVars, clock, storeVars, ghostVars>>

sendPrompt_callOpenCodeAPI(call) ==
  LET f == calls[call] IN
  /\ f.pc = "callOpenCodeAPI"
  /\ \E outcome \in UpstreamOutcomes :
       calls' = [calls EXCEPT ![call] =
                   [f EXCEPT !.pc = "addAssistantMessage", !.conversationHistory = <<>>,
                             !.response = callOpenCodeAPI(outcome)]]
  /\ UNCHANGED <<authVars, impl, userVars, clock, storeVars, ghostVars>>

sendPrompt_addAssistantMessage(call) ==
  LET f == calls[call] IN
  /\ f.pc = "addAssistantMessage"
  /\ Store_addMessage(f.sessionId, f.userId, AssistantMessage(f.response), call)
  /\ calls' = [calls EXCEPT ![call] =
       IF IsThrow(Store_addMessage_result(f.sessionId, f.userId))
       THEN DoneFrame("threw")
       ELSE [DoneFrame("returned") EXCEPT !.response = f.response]]
  /\ UNCHANGED <<authVars, impl, userVars, clock>>

(* ------------------------------ the clock ------------------------------- *)
\* time passes
ClockAdvance ==
  /\ clock < MaxClock
  /\ clock' = clock + 1
  /\ UNCHANGED <<authVars, impl, userVars, storeVars, calls, ghostVars>>

\* the wall clock is set back (Date.now() is not monotonic)
ClockAdjust ==
  /\ clock > 0
  /\ clock' = clock - 1
  /\ UNCHANGED <<authVars, impl, userVars, storeVars, calls, ghostVars>>

(* -------------------------- bearer credentials -------------------------- *)
\* JavaScript values read from a decoded payload
Num(n) == [number |-> n]
Str(s) == [string |-> s]
\* an issuer string, cut into the pieces the checks look for
Url(pieces) == [url |-> pieces]

\* !v is false
Truthy(v) ==
  CASE "nothing" \in DOMAIN v -> FALSE
    [] "number" \in DOMAIN v -> v.number # 0
    [] "string" \in DOMAIN v -> v.string # ""
    [] "url" \in DOMAIN v -> v.url # <<>>
    [] OTHER -> TRUE

\* v < n for a number n: undefined converts to NaN, and NaN < n is false
LessThan(v, n) == IF "number" \in DOMAIN v THEN v.number < n ELSE FALSE

\* url.startsWith(prefix), prefix given in pieces
StartsWith(url, prefix) ==
  /\ Len(url.url) >= Len(prefix)
  /\ SubSeq(url.url, 1, Len(prefix)) = prefix

\* url.includes(needle): '.clerk.accounts.' itself contains 'clerk.'
Includes(url, needle) ==
  \E i \in 1..Len(url.url) :
    \/ url.url[i] = needle
    \/ url.url[i] = ".clerk.accounts." /\ needle = "clerk."

\* payload.exp: absent, or seconds since the epoch
Exps == {Undefined} \cup {Num(n) : n \in 0..(MaxClock + 1)}
Issuers ==
  {Undefined,
   Url(<<"https://", "clerk.", "example.com">>),
   Url(<<"https://", "app", ".clerk.accounts.", "dev">>),
   Url(<<"https://", "evil.example/", "clerk.">>),
   Url(<<"https://", "evil.example">>)}
Subs == {Undefined, Str(""), Str("u1"), Str("u2")}

\* what the middle segment of a token stands for: text that is not base64,
\* base64 of text that is not JSON, or base64 of a JSON value
NotBase64 == [segment |-> "not_base64"]
NotJson == [segment |-> "not_json"]
Json(value) == [segment |-> "json", value |-> value]
Payloads == {[exp |-> e, iss |-> i, sub |-> u] : e \in Exps, i \in Issuers, u \in Subs}
Segments == {NotBase64, NotJson, Json(Null)} \cup {Json(payload) : payload \in Payloads}
Opaque == [segment |-> "opaque"]

\* the Authorization headers: none, another scheme, 'Bearer ' + a token of 2,
\* 3 or 4 dot-separated segments
Header(scheme, parts) == [scheme |-> scheme, parts |-> parts]
AuthHeaders ==
  {Undefined, Header("Basic", <<Opaque>>), Header("Bearer", <<Opaque, Opaque>>),
   Header("Bearer", <<Opaque, Opaque, Opaque, Opaque>>)}
    \cup {Header("Bearer", <<Opaque, segment, Opaque>>) : segment \in Segments}

\* !authHeader || !authHeader.startsWith('Bearer ')
NoBearer(header) == header = Undefined \/ header.scheme # "Bearer"

\* Math.floor(Date.now() / 1000)
NowSeconds == DateNow \div MsPerSecond

(* --------------------- verifyClerkToken (auth/clerk.ts) ------------------ *)
\* the value returned: null, or payload.sub whatever it is; every exception
\* (atob, JSON.parse, a property read from null, startsWith of undefined) is
\* caught and answered with null
verifyClerkToken(header) ==
  IF NoBearer(header) THEN Null
  ELSE IF Len(header.parts) # 3 THEN Null
  ELSE IF header.parts[2].segment # "json" THEN Null
  ELSE LET payload == header.parts[2].value IN
    IF payload = Null THEN Null
    ELSE IF LessThan(payload.exp, NowSeconds) THEN Null
    ELSE IF payload.iss = Undefined THEN Null
    ELSE IF ~StartsWith(payload.iss, <<"https://", "clerk.">>) THEN Null
    ELSE payload.sub

(* ---------------- Worker authMiddleware (session-manager.ts) ------------- *)
Response(status, body) == [status |-> status, body |-> body]
Unauthorized(debug) == Response(401, [error |-> "Unauthorized", debug |-> debug])
\* c.set('userId', userId); await next()
CallNext(userId) == [next |-> userId]

Worker_authMiddleware(header) ==
  IF NoBearer(header) THEN Unauthorized("no_bearer")
  ELSE IF Len(header.parts) # 3 THEN Unauthorized("invalid_jwt_format")
  ELSE IF header.parts[2].segment # "json" THEN Unauthorized("verify_error")
  ELSE LET payload == header.parts[2].value IN
    IF payload = Null THEN Unauthorized("verify_error")
    ELSE IF Truthy(payload.exp) /\ LessThan(payload.exp, NowSeconds)
         THEN Unauthorized("token_expired")
    ELSE IF ~Truthy(payload.iss)
            \/ (~Includes(payload.iss, "clerk.") /\ ~Includes(payload.iss, ".clerk.accounts."))
         THEN Unauthorized("invalid_issuer")
    ELSE IF ~Truthy(payload.sub) THEN Unauthorized("no_user_id")
    ELSE CallNext(payload.sub)

(* ------------------ ApiApp's middlewares (api/app.ts) -------------------- *)
\* what getAuth(c) of @hono/clerk-auth can do
GetAuthOutcomes == {Throw("getAuth"), Null, [userId |-> Null], [userId |-> Str("u1")]}

clerkAuthMiddleware(auth) ==
  IF IsThrow(auth) THEN Response(401, [error |-> "Authentication failed"])
  ELSE IF auth = Null \/ ~Truthy(auth.userId) THEN Response(401, [error |-> "Unauthorized"])
  ELSE CallNext(auth.userId)

\* what decodeToken (jsonwebtoken's verify) can do with a token
DecodeTokenOutcomes == {Throw("jwt.verify"), [userId |-> Str("u1")]}

jwtAuthMiddleware(header, decoded) ==
  IF NoBearer(header) THEN Response(401, [error |-> "Unauthorized"])
  ELSE IF IsThrow(decoded) THEN Response(401, [error |-> "Invalid token"])
  ELSE CallNext(decoded.userId)

\* what was called, and what it answered
Answer(of, result) == [of |-> of, result |-> result]

verifyClerkToken_call ==
  /\ authResult' = Answer("verifyClerkToken", verifyClerkToken(authHeader))
  /\ UNCHANGED <<authHeader, context, httpResponse, impl, userVars, clock, storeVars, calls, ghostVars>>

Worker_authMiddleware_call ==
  /\ authResult' = Answer("Worker.authMiddleware", Worker_authMiddleware(authHeader))
  /\ UNCHANGED <<authHeader, context, httpResponse, impl, userVars, clock, storeVars, calls, ghostVars>>

clerkAuthMiddleware_call ==
  /\ \E auth \in GetAuthOutcomes :
       authResult' = Answer("clerkAuthMiddleware", clerkAuthMiddleware(auth))
  /\ UNCHANGED <<authHeader, context, httpResponse, impl, userVars, clock, storeVars, calls, ghostVars>>

jwtAuthMiddleware_call ==
  /\ \E decoded \in DecodeTokenOutcomes :
       authResult' = Answer("jwtAuthMiddleware", jwtAuthMiddleware(authHeader, decoded))
  /\ UNCHANGED <<authHeader, context, httpResponse, impl, userVars, clock, storeVars, calls, ghostVars>>

(* ------------- Worker's /api routes (session-manager.ts) ---------------- *)
\* the headers requests carry: none, a malformed token, and tokens whose
\* payload has every exp, a trusted or an untrusted issuer, a subject or none
HttpPayloads ==
  {[exp |-> e, iss |-> Url(<<"https://", "clerk.", "example.com">>), sub |-> Str(u)] :
     e \in Exps, u \in Users}
    \cup {[exp |-> Num(MaxClock + 1), iss |-> Url(<<"https://", "evil.example">>), sub |-> Str("u1")],
          [exp |-> Num(MaxClock + 1), iss |-> Url(<<"https://", "clerk.", "example.com">>), sub |-> Undefined]}
HttpAuthHeaders ==
  {Undefined, Header("Bearer", <<Opaque, Opaque>>)}
    \cup {Header("Bearer", <<Opaque, Json(payload), Opaque>>) : payload \in HttpPayloads}

\* a user id the client writes into the request body
ClientSuppliedId == "u2"

\* body.prompt: absent, the empty string, or the text of one of the calls
BodyPrompts == {Undefined, Str("")} \cup {Str(CallPrompt(call)) : call \in Calls}

\* body.sessionId when it is the empty string (NoId: the body has no sessionId)
EmptySessionId == <<"">>

\* the requests to the routes mounted under /api
Request(route, authorization, id, prompt) ==
  [route |-> route, authorization |-> authorization, id |-> id,
   body |-> [prompt |-> prompt, userId |-> ClientSuppliedId]]
Requests ==
  {Request(route, a, NoId, Undefined) : route \in {"POST /api/sessions", "GET /api/sessions"}, a \in HttpAuthHeaders}
    \cup {Request("DELETE /api/sessions/:id", a, id, Undefined) : a \in HttpAuthHeaders, id \in KnownIds}
    \cup {Request("POST /api/prompt", a, id, p) :
            a \in HttpAuthHeaders, id \in KnownIds \cup {NoId, EmptySessionId}, p \in BodyPrompts}

\* a check that only notices an absent prompt
Worker_promptMissing_absentOnly(body) == body.prompt = Undefined
\* if (!prompt): absent and '' alike
Worker_promptMissing(body) == ~Truthy(body.prompt)

\* if (sessionId): an absent sessionId and '' alike take the else branch
Worker_sessionIdSupplied(sessionId) == sessionId \notin {NoId, EmptySessionId}

\* the id sent, whether or not a session was created
Worker_actualSessionId_asSent(sessionId) == sessionId
\* let actualSessionId: the id sent, or session.id of the session just created
Worker_actualSessionId(sessionId) ==
  IF Worker_sessionIdSupplied(sessionId) THEN sessionId ELSE Store_newId

\* the sendPrompt call that carries the prompt of the body
PromptCall(body) == IF body.prompt = Str(CallPrompt("c2")) THEN "c2" ELSE "c1"

\* the requests whose handler calls createSession
CreatesSession(request) ==
  \/ request.route = "POST /api/sessions"
  \/ /\ request.route = "POST /api/prompt"
     /\ ~Worker_sessionIdSupplied(request.id)
     /\ ~Worker_promptMissing(request.body)

\* the requests whose handler calls sendPrompt(..., prompt)
SendsPrompt(request) ==
  request.route = "POST /api/prompt" /\ ~Worker_promptMissing(request.body)

Done(answer) ==
  /\ context' = NoContext
  /\ httpResponse' = answer

\* a request arrives
Worker_fetch ==
  /\ impl \in StateImpls
  /\ context = NoContext
  /\ \E request \in Requests :
       /\ CreatesSession(request) => Cardinality(DOMAIN createdBy) < MaxRelaySessions
       /\ SendsPrompt(request) => calls[PromptCall(request.body)].pc = "idle"
       /\ context' = [pc |-> "authMiddleware", request |-> request]
  /\ httpResponse' = Undefined
  /\ UNCHANGED <<authHeader, authResult, impl, userVars, clock, storeVars, calls, ghostVars>>

\* new Worker(env): without the SESSIONS binding the constructor makes a new,
\* empty InMemorySessionStore; with it, a stub of the one durable object
Worker_constructor ==
  IF impl = InMemoryImpl
  THEN /\ sessions' = EmptyMap
       /\ messages' = EmptyMap
       /\ sessionCounter' = 0
       /\ UNCHANGED <<idCounter, messagesTable, randomDraws, sdkIssued>>
  ELSE UNCHANGED storeVars

\* the module's default export: fetch(request, env) makes a Worker for the
\* request and hands the request to it
default_fetch ==
  /\ impl \in StateImpls
  /\ context = NoContext
  /\ Worker_constructor
  /\ \E request \in Requests :
       /\ CreatesSession(request) => Cardinality(DOMAIN createdBy) < MaxRelaySessions
       /\ SendsPrompt(request) => calls[PromptCall(request.body)].pc = "idle"
       /\ context' = [pc |-> "authMiddleware", request |-> request]
  /\ httpResponse' = Undefined
  /\ UNCHANGED <<authHeader, authResult, impl, userVars, clock, calls, ghostVars>>

\* apiRoutes.use(authMiddleware): answer 401, or c.set('userId', ...) and next()
Worker_apiRoutes_authMiddleware ==
  /\ context.pc = "authMiddleware"
  /\ LET answer == Worker_authMiddleware(context.request.authorization) IN
       IF "next" \in DOMAIN answer
       THEN /\ context' = [pc |-> "handler", request |-> context.request,
                           userId |-> answer.next.string]
            /\ UNCHANGED httpResponse
       ELSE Done(answer)
  /\ UNCHANGED <<authHeader, authResult, impl, userVars, clock, storeVars, calls, ghostVars>>

Handles(route) == context.pc = "handler" /\ context.request.route = route

\* apiRoutes.post('/sessions')
Worker_postSessions ==
  /\ Handles("POST /api/sessions")
  /\ Store_createSession(context.userId)
  /\ Done(Response(201, Store_newSession(context.userId)))
  /\ UNCHANGED <<authHeader, authResult, impl, userVars, clock, calls>>

\* apiRoutes.get('/sessions')
Worker_getSessions ==
  /\ Handles("GET /api/sessions")
  /\ \E userSessions \in Store_listUserSessions_results(context.userId) :
       Done(Response(200, [sessions |-> userSessions.list]))
  /\ UNCHANGED <<authHeader, authResult, impl, userVars, clock, storeVars, calls, ghostVars>>

\* if (!deleted) return c.json({ error: 'Session not found' }, 404); return c.body(null, 204)
Worker_deleteSessions_response(sessionId, userId) ==
  IF Store_deleteSession_result(sessionId, userId) = Bool(TRUE)
  THEN Response(204, Null)
  ELSE Response(404, [error |-> "Session not found"])

\* apiRoutes.delete('/sessions/:id')
Worker_deleteSessions ==
  /\ Handles("DELETE /api/sessions/:id")
  /\ Store_deleteSession(context.request.id, context.userId)
  /\ Done(Worker_deleteSessions_response(context.request.id, context.userId))
  /\ UNCHANGED <<authHeader, authResult, impl, userVars, clock, calls>>

\* the call the handler makes: sendPrompt(actualSessionId, userId, prompt)
Worker_sendPrompt(call, actualSessionId) ==
  /\ calls[call].pc = "idle"
  /\ calls' = [calls EXCEPT ![call] = [IdleFrame EXCEPT !.pc = "getSession",
                  !.sessionId = actualSessionId, !.userId = context.userId,
                  !.prompt = context.request.body.prompt.string]]
  /\ context' = [pc |-> "sendPrompt", request |-> context.request,
                 userId |-> context.userId, call |-> call, actualSessionId |-> actualSessionId]
  /\ UNCHANGED httpResponse

\* apiRoutes.post('/prompt'), up to the call of sendPrompt
Worker_postPrompt ==
  /\ Handles("POST /api/prompt")
  /\ LET sessionId == context.request.id
         body == context.request.body IN
       IF Worker_promptMissing(body)
       THEN /\ Done(Response(400, [error |-> "prompt is required"]))
            /\ UNCHANGED <<storeVars, calls, ghostVars>>
       ELSE IF Worker_sessionIdSupplied(sessionId)
       THEN IF OpenCodeService_getSession_result(sessionId, context.userId) = Undefined
            THEN /\ Done(Response(404, [error |-> "Session not found"]))
                 /\ UNCHANGED <<storeVars, calls, ghostVars>>
            ELSE /\ Worker_sendPrompt(PromptCall(body), Worker_actualSessionId(sessionId))
                 /\ UNCHANGED <<storeVars, ghostVars>>
       ELSE /\ Store_createSession(context.userId)
            /\ Worker_sendPrompt(PromptCall(body), Worker_actualSessionId(sessionId))
  /\ UNCHANGED <<authHeader, authResult, impl, userVars, clock>>

\* apiRoutes.post('/prompt'), once sendPrompt has returned or thrown
Worker_postPrompt_respond ==
  /\ context.pc = "sendPrompt"
  /\ calls[context.call].pc \in {"returned", "threw"}
  /\ Done(IF calls[context.call].pc = "returned"
          THEN Response(200, [success |-> TRUE, response |-> calls[context.call].response,
                              sessionId |-> context.actualSessionId])
          ELSE Response(500, [success |-> FALSE, error |-> "Session not found or access denied"]))
  /\ UNCHANGED <<authHeader, authResult, impl, userVars, clock, storeVars, calls, ghostVars>>

(* ------------------- UserStorage (storage/user-storage.ts) -------------- *)
\* strings are sequences of characters; the characters a caller's userId is made of
IdChars == {"a", "_", "@"}
\* [a-zA-Z0-9-_]
IdSafeChars == {"a", "_"}
MaxIdLen == 2
\* the characters a file name is made of
NameChars == {"f", ".", "/"}
MaxNameLen == 2
\* files the directory tree holds at most
MaxFiles == 2

Strings(chars, maxLen) == UNION {[1..n -> chars] : n \in 1..maxLen}
UserIdStrings == Strings(IdChars, MaxIdLen)
FileNames == Strings(NameChars, MaxNameLen)

\* the callers of one UserStorage: two different user ids
Callers == {userIds[i] : i \in DOMAIN userIds}

\* what a caller writes: its own data
Content(userId) == [content |-> <<"data of">> \o userId]

\* userId.replace(/[^a-zA-Z0-9-_]/g, '_')
UserStorage_sanitizedId(userId) ==
  [i \in 1..Len(userId) |-> IF userId[i] \in IdSafeChars THEN userId[i] ELSE "_"]

\* this.baseDir; a path is the sequence of its components
baseDir == <<"baseDir">>

\* join(this.baseDir, sanitizedId)
UserStorage_getUserDir(userId) == <<baseDir, UserStorage_sanitizedId(userId)>>

\* .replace(/\.\./g, ''): the pairs of dots are removed from left to right
RECURSIVE RemoveDotDot(_)
RemoveDotDot(name) ==
  IF Len(name) < 2 THEN name
  ELSE IF name[1] = "." /\ name[2] = "." THEN RemoveDotDot(SubSeq(name, 3, Len(name)))
       ELSE <<name[1]>> \o RemoveDotDot(Tail(name))

\* filename.replace(/[\/\\]/g, '_').replace(/\.\./g, '')
UserStorage_sanitizeFilename(filename) ==
  RemoveDotDot([i \in 1..Len(filename) |-> IF filename[i] = "/" THEN "_" ELSE filename[i]])

\* path.join(dir, name) normalises: '' and '.' name the directory itself
join(dir, name) == IF name \in {<<>>, <<".">>} THEN dir ELSE Append(dir, name)

UserStorage_filePath(userId, filename) ==
  join(UserStorage_getUserDir(userId), UserStorage_sanitizeFilename(filename))

\* fs.writeFile on a path that is the user directory rejects (EISDIR)
UserStorage_writeFile_result(userId, filename) ==
  IF UserStorage_filePath(userId, filename) = UserStorage_getUserDir(userId)
  THEN Throw("EISDIR") ELSE Undefined

UserStorage_writeFile_files(userId, filename, content) ==
  IF IsThrow(UserStorage_writeFile_result(userId, filename)) THEN files
  ELSE Put(files, UserStorage_filePath(userId, filename), content)

\* try { return await readFile(filePath, 'utf-8') } catch { return null }
UserStorage_readFile_result(userId, filename) ==
  Get(files, UserStorage_filePath(userId, filename), Null)

\* readdir(userDir), or [] when the directory does not exist; readdir's order
\* is the file system's, the names are returned here as a set
UserStorage_listFiles_result(userId) ==
  LET userDir == UserStorage_getUserDir(userId)
  IN [names |-> IF userDir \notin dirs THEN {}
                ELSE {path[Len(path)] : path \in {p \in DOMAIN files : SubSeq(p, 1, Len(p) - 1) = userDir}}]

\* try { await unlink(filePath); return true } catch { return false }
UserStorage_deleteFile_result(userId, filename) ==
  Bool(UserStorage_filePath(userId, filename) \in DOMAIN files)

UserStorage_deleteFile_files(userId, filename) ==
  Remove(files, UserStorage_filePath(userId, filename))

UserStorage_writeFile ==
  /\ \E userId \in Callers, filename \in FileNames :
       /\ \/ Cardinality(DOMAIN files) < MaxFiles
          \/ UserStorage_filePath(userId, filename) \in DOMAIN files
       /\ dirs' = dirs \cup {UserStorage_getUserDir(userId)}
       /\ files' = UserStorage_writeFile_files(userId, filename, Content(userId))
  /\ UNCHANGED <<impl, clock, storeVars, calls, ghostVars, authVars, userIds, getSandboxCalls>>

\* a read: the caller gets UserStorage_readFile_result and nothing changes
UserStorage_readFile ==
  /\ \A userId \in Callers, filename \in FileNames :
       UserStorage_readFile_result(userId, filename) \in {Null} \cup {Content(u) : u \in Callers}
  /\ UNCHANGED vars

\* a read: the caller gets UserStorage_listFiles_result and nothing changes
UserStorage_listFiles ==
  /\ \A userId \in Callers : IsFiniteSet(UserStorage_listFiles_result(userId).names)
  /\ UNCHANGED vars

UserStorage_deleteFile ==
  /\ \E userId \in Callers, filename \in FileNames :
       files' = UserStorage_deleteFile_files(userId, filename)
  /\ UNCHANGED <<impl, clock, storeVars, calls, ghostVars, authVars, userIds, dirs, getSandboxCalls>>


(* ------ SandboxManager (class in opencode/opencode-client.test.ts) ------ *)
\* the characters a caller's userId is made of
SandboxIdChars == {"a", "@", "/", "."}
\* [a-zA-Z0-9_-]
SandboxSafeChars == {"a", "_"}
SandboxUserIds == Strings(SandboxIdChars, MaxIdLen)

\* userId.replace(/\.\./g, '').replace(/\//g, '').replace(/\\/g, '')
\*       .replace(/[^a-zA-Z0-9_-]/g, '_')
SandboxManager_sanitizeUserId(userId) ==
  LET kept == SelectSeq(RemoveDotDot(userId), LAMBDA char : char \notin {"/", "\\"})
  IN [i \in 1..Len(kept) |-> IF kept[i] \in SandboxSafeChars THEN kept[i] ELSE "_"]

\* `/home/user/workspaces/${sanitizedId}`
SandboxManager_getUserWorkspacePath_result(userId) ==
  <<"/home/user/workspaces/">> \o SandboxManager_sanitizeUserId(userId)

\* `opencode-${sanitizedId}`, the id passed to getSandbox
SandboxManager_sandboxId(userId) == <<"opencode-">> \o SandboxManager_sanitizeUserId(userId)

\* getSandbox(ns, `opencode-${sanitizedId}`), then mkdir -p of
\* getUserWorkspacePath(sanitizedId) in that sandbox
SandboxManager_getSandboxForUser ==
  /\ \E userId \in Callers :
       getSandboxCalls' = getSandboxCalls \cup
         {[userId |-> userId,
           id |-> SandboxManager_sandboxId(userId),
           mkdir |-> SandboxManager_getUserWorkspacePath_result(SandboxManager_sanitizeUserId(userId))]}
  /\ UNCHANGED <<impl, clock, storeVars, calls, ghostVars, authVars, userIds, dirs, files>>

\* a read: the caller gets SandboxManager_getUserWorkspacePath_result
SandboxManager_getUserWorkspacePath ==
  /\ \A userId \in Callers : Len(SandboxManager_getUserWorkspacePath_result(userId)) >= 1
  /\ UNCHANGED vars

(* --------------------------- specifications ----------------------------- *)
\* no UserStorage and no SandboxManager in the deployment
NoUserStorage ==
  /\ userIds = <<>>
  /\ dirs = {}
  /\ files = EmptyMap
  /\ getSandboxCalls = {}

Init ==
  /\ impl \in Impls
  /\ clock = 0
  /\ sessions = EmptyMap
  /\ idCounter = 0
  /\ sessionCounter = 0
  /\ messages = EmptyMap
  /\ messagesTable = <<>>
  /\ randomDraws = 0
  /\ sdkIssued = {}
  /\ calls = [c \in Calls |-> IdleFrame]
  /\ accepted = EmptyMap
  /\ createdBy = EmptyMap
  /\ authHeader = Undefined
  /\ authResult = Undefined
  /\ context = NoContext
  /\ httpResponse = Undefined
  /\ NoUserStorage

(* ---- DELETE /sessions/:id in ApiApp (api/app.ts) and in worker.ts ---- *)
\* this.sessionManager.deleteSession(sessionId, userId); return c.body(null, 204)
ApiApp_deleteSessions_response(sessionId, userId) == Response(204, Null)

\* if (match && request.method === 'DELETE') return new Response(null, { status: 204 })
handleSessionRoute_deleteSessions_response(sessionId, userId) == Response(204, Null)

\* worker.ts answers and touches no store
handleSessionRoute_deleteSessions ==
  /\ impl = WorkerStubImpl
  /\ \A sessionId \in KnownIds, userId \in Users :
       handleSessionRoute_deleteSessions_response(sessionId, userId).status = 204
  /\ UNCHANGED vars

\* the store operations, called in any order by any user
Next ==
  \/ SessionManager_createSession
  \/ SessionManager_getSession
  \/ SessionManager_deleteSession
  \/ Sdk_createSession
  \/ Sdk_getSession
  \/ Sdk_deleteSession
  \/ Sdk_sendPrompt
  \/ handleSessionRoute_postSessions
  \/ handleSessionRoute_getSessions
  \/ handleSessionRoute_deleteSessions
  \/ OpenCodeService_createSession
  \/ OpenCodeService_getSession
  \/ OpenCodeService_deleteSession
  \/ OpenCodeService_listUserSessions
  \/ OpenCodeService_getConversationHistory
  \/ SessionStore_addMessage
  \/ ClockAdvance
  \/ ClockAdjust

Spec == Init /\ [][Next]_vars

InitRelay == Init /\ impl \in StateImpls

Relay_createSession ==
  /\ Cardinality(DOMAIN createdBy) < MaxRelaySessions
  /\ OpenCodeService_createSession

\* the relay, interleaved at every await with other calls and store operations
NextRelay ==
  \/ Relay_createSession
  \/ OpenCodeService_deleteSession
  \/ \E call \in Calls : sendPrompt_call(call)
  \/ \E call \in Calls : sendPrompt_getSession(call)
  \/ \E call \in Calls : sendPrompt_addUserMessage(call)
  \/ \E call \in Calls : sendPrompt_getConversationHistory(call)
  \/ \E call \in Calls : sendPrompt_callOpenCodeAPI(call)
  \/ \E call \in Calls : sendPrompt_addAssistantMessage(call)
  \/ ClockAdvance
  \/ ClockAdjust

SpecRelay == InitRelay /\ [][NextRelay]_vars

\* the verifier and the middlewares, applied to any header at any time
InitAuth ==
  /\ impl = InMemoryImpl
  /\ clock \in 0..MaxClock
  /\ sessions = EmptyMap
  /\ idCounter = 0
  /\ sessionCounter = 0
  /\ messages = EmptyMap
  /\ messagesTable = <<>>
  /\ randomDraws = 0
  /\ sdkIssued = {}
  /\ calls = [c \in Calls |-> IdleFrame]
  /\ accepted = EmptyMap
  /\ createdBy = EmptyMap
  /\ authHeader \in AuthHeaders
  /\ authResult = Undefined
  /\ context = NoContext
  /\ httpResponse = Undefined
  /\ NoUserStorage

NextAuth ==
  \/ verifyClerkToken_call
  \/ Worker_authMiddleware_call
  \/ clerkAuthMiddleware_call
  \/ jwtAuthMiddleware_call

SpecAuth == InitAuth /\ [][NextAuth]_vars

InitHttp == Init /\ impl \in StateImpls

\* one Worker instance serving requests through worker.fetch, one request at a
\* time; a prompt request runs the relay step by step
NextHttp ==
  \/ Worker_fetch
  \/ Worker_apiRoutes_authMiddleware
  \/ Worker_postSessions
  \/ Worker_getSessions
  \/ Worker_deleteSessions
  \/ Worker_postPrompt
  \/ Worker_postPrompt_respond
  \/ \E call \in Calls : sendPrompt_getSession(call)
  \/ \E call \in Calls : sendPrompt_addUserMessage(call)
  \/ \E call \in Calls : sendPrompt_getConversationHistory(call)
  \/ \E call \in Calls : sendPrompt_callOpenCodeAPI(call)
  \/ \E call \in Calls : sendPrompt_addAssistantMessage(call)
  \/ ClockAdvance
  \/ ClockAdjust

SpecHttp == InitHttp /\ [][NextHttp]_vars

\* the deployed module: every request enters through the default export
NextDeployed ==
  \/ default_fetch
  \/ Worker_apiRoutes_authMiddleware
  \/ Worker_postSessions
  \/ Worker_getSessions
  \/ Worker_deleteSessions
  \/ Worker_postPrompt
  \/ Worker_postPrompt_respond
  \/ \E call \in Calls : sendPrompt_getSession(call)
  \/ \E call \in Calls : sendPrompt_addUserMessage(call)
  \/ \E call \in Calls : sendPrompt_getConversationHistory(call)
  \/ \E call \in Calls : sendPrompt_callOpenCodeAPI(call)
  \/ \E call \in Calls : sendPrompt_addAssistantMessage(call)
  \/ ClockAdvance
  \/ ClockAdjust

SpecDeployed == InitHttp /\ [][NextDeployed]_vars

\* no session service is running
NoDeployment ==
  /\ impl = InMemoryImpl
  /\ clock = 0
  /\ sessions = EmptyMap
  /\ idCounter = 0
  /\ sessionCounter = 0
  /\ messages = EmptyMap
  /\ messagesTable = <<>>
  /\ randomDraws = 0
  /\ sdkIssued = {}
  /\ calls = [c \in Calls |-> IdleFrame]
  /\ accepted = EmptyMap
  /\ createdBy = EmptyMap
  /\ authHeader = Undefined
  /\ authResult = Undefined
  /\ context = NoContext
  /\ httpResponse = Undefined

\* one UserStorage over an empty base directory, used by two callers whose
\* user ids differ
InitStorage ==
  /\ NoDeployment
  /\ userIds \in {pair \in UserIdStrings \X UserIdStrings : pair[1] # pair[2]}
  /\ dirs = {}
  /\ files = EmptyMap
  /\ getSandboxCalls = {}

NextStorage ==
  \/ UserStorage_writeFile
  \/ UserStorage_readFile
  \/ UserStorage_listFiles
  \/ UserStorage_deleteFile

SpecStorage == InitStorage /\ [][NextStorage]_vars

\* one SandboxManager, used by two callers whose user ids differ
InitSandbox ==
  /\ NoDeployment
  /\ userIds \in {pair \in SandboxUserIds \X SandboxUserIds : pair[1] # pair[2]}
  /\ dirs = {}
  /\ files = EmptyMap
  /\ getSandboxCalls = {}

NextSandbox ==
  \/ SandboxManager_getSandboxForUser
  \/ SandboxManager_getUserWorkspacePath

SpecSandbox == InitSandbox /\ [][NextSandbox]_vars


(* ======================= properties of the stores ======================= *)

\* C1. Read isolation: in SessionManager, InMemorySessionStore and
\* SessionDurableObject, whatever operations came before, a user other than
\* the one who created session s gets not-found from getSession(s, .) and the
\* empty array from getConversationHistory(s, .).
C1_ReadIsolation ==
  \A s \in DOMAIN createdBy : \A u2 \in Users \ {createdBy[s]} :
    /\ impl = SessionManagerImpl => SessionManager_getSession_result(s, u2) = Undefined
    /\ impl = InMemoryImpl =>
         /\ InMemory_getSession_result(s, u2) = Null
         /\ InMemory_getConversationHistory_result(s, u2) = History(<<>>)
    /\ impl = DurableObjectImpl =>
         /\ DurableObject_getSession_result(s, u2) = Null
         /\ DurableObject_getConversationHistory_results(s, u2) = {History(<<>>)}

\* u1's session holds two messages that u1 reads back while u2 reads nothing
C1_Witness ==
  /\ impl = DurableObjectImpl
  /\ \E s \in DOMAIN sessions :
       /\ createdBy[s] = "u1"
       /\ Len(DurableObject_rows(s)) = 2
       /\ DurableObject_getSession_result(s, "u1") = sessions[s]
       /\ History(<<>>) \notin DurableObject_getConversationHistory_results(s, "u1")
       /\ DurableObject_getSession_result(s, "u2") = Null

\* C2. deleteSession(s, u2) by a user who does not own s returns false, does
\* not throw, and leaves s and its messages as they were.
C2_NonOwnerDelete ==
  \A s \in DOMAIN sessions : \A u2 \in Users \ {sessions[s].userId} :
    /\ impl = SessionManagerImpl =>
         /\ SessionManager_deleteSession_result(s, u2) = Bool(FALSE)
         /\ SessionManager_deleteSession_sessions(s, u2) = sessions
    /\ impl = InMemoryImpl =>
         /\ InMemory_deleteSession_result(s, u2) = Bool(FALSE)
         /\ InMemory_deleteSession_sessions(s, u2) = sessions
         /\ InMemory_deleteSession_messages(s, u2) = messages
    /\ impl = DurableObjectImpl =>
         /\ DurableObject_deleteSession_result(s, u2) = Bool(FALSE)
         /\ DurableObject_deleteSession_sessions(s, u2) = sessions
         /\ DurableObject_deleteSession_messagesTable(s, u2) = messagesTable
    /\ impl = SdkImpl =>
         /\ Sdk_deleteSession_result(s, u2) = Bool(FALSE)
         /\ Sdk_deleteSession_sessions(s, u2) = sessions

\* C3. No existence leakage: for every owner-gated operation, what a requester
\* gets for a session owned by someone else is what they get for an id that
\* does not exist.
C3_NoExistenceLeak ==
  \A s \in DOMAIN sessions : \A u2 \in Users \ {sessions[s].userId} :
    /\ impl = SessionManagerImpl =>
         /\ SessionManager_getSession_result(s, u2) = SessionManager_getSession_result(NonExistentId, u2)
         /\ SessionManager_deleteSession_result(s, u2) = SessionManager_deleteSession_result(NonExistentId, u2)
    /\ impl \in StateImpls =>
         /\ OpenCodeService_getSession_result(s, u2) = OpenCodeService_getSession_result(NonExistentId, u2)
         /\ Store_deleteSession_result(s, u2) = Store_deleteSession_result(NonExistentId, u2)
         /\ Store_getConversationHistory_results(s, u2) = Store_getConversationHistory_results(NonExistentId, u2)
         /\ Store_addMessage_result(s, u2) = Store_addMessage_result(NonExistentId, u2)
         /\ OpenCodeService_sendPrompt_check(s, u2) = OpenCodeService_sendPrompt_check(NonExistentId, u2)
    /\ impl = SdkImpl =>
         /\ Sdk_getSession_result(s, u2) = Sdk_getSession_result(NonExistentId, u2)
         /\ Sdk_deleteSession_result(s, u2) = Sdk_deleteSession_result(NonExistentId, u2)
         /\ Sdk_sendPrompt_check(s, u2) = Sdk_sendPrompt_check(NonExistentId, u2)

\* C4. The owner of a session never changes: no step, a later createSession
\* included, changes the userId stored under a session id that stays in the store.
C4_OwnerImmutable ==
  [][\A id \in (DOMAIN sessions) \cap (DOMAIN sessions') :
       sessions'[id].userId = sessions[id].userId]_vars

\* C9. Append ordering: the owner's getConversationHistory returns the
\* messages of a session in exactly the order in which the store accepted the
\* addMessage calls, whatever created_at they carry.
C9_AppendOrder ==
  impl \in StateImpls =>
    \A s \in DOMAIN sessions :
      Store_getConversationHistory_results(s, sessions[s].userId) = {History(PlainSeq(accepted[s]))}


(* ======================== properties of the relay ======================= *)
\* the addMessage calls the store accepted from `call` for session s, in order
AppendedBy(log, s, call) ==
  IF s \in DOMAIN log THEN SelectSeq(log[s], LAMBDA m : m.by = call) ELSE <<>>

\* C10. A sendPrompt call that returns a reply has appended exactly two
\* messages to its session, {role: user, content: prompt} and then
\* {role: assistant, content: reply}, and no other message anywhere.
C10_RelayAppendsTwo ==
  [][\A call \in Calls :
       (calls[call].pc = "addAssistantMessage" /\ calls'[call].pc = "returned") =>
         /\ AppendedBy(accepted', calls[call].sessionId, call) =
              << [role |-> "user", content |-> calls[call].prompt, by |-> call],
                 [role |-> "assistant", content |-> calls[call].response, by |-> call] >>
         /\ \A s \in DOMAIN accepted' \ {calls[call].sessionId} :
              AppendedBy(accepted', s, call) = <<>>]_vars

\* two calls on one session, interleaved, both returned: the store accepted
\* c1's prompt, c2's prompt, c1's reply, c2's reply
C10_Witness ==
  /\ calls["c1"].pc = "returned"
  /\ calls["c2"].pc = "returned"
  /\ \E s \in DOMAIN accepted :
       /\ Len(accepted[s]) = 4
       /\ [i \in 1..4 |-> accepted[s][i].by] = <<"c1", "c2", "c1", "c2">>
       /\ [i \in 1..4 |-> accepted[s][i].role] = <<"user", "user", "assistant", "assistant">>


(* ======================= properties of the verifier ===================== *)
Answered(of) == "of" \in DOMAIN authResult /\ authResult.of = of

\* the header is 'Bearer ' + three segments whose middle one decodes to an object
Decodes(header) ==
  /\ ~NoBearer(header)
  /\ Len(header.parts) = 3
  /\ header.parts[2].segment = "json"
  /\ header.parts[2].value # Null

\* the answer lets the request through as some user
Accepts(answer) ==
  IF answer.of = "verifyClerkToken" THEN Truthy(answer.result) ELSE "next" \in DOMAIN answer.result

\* C6. Expiry boundary: verifyClerkToken and the Worker's authMiddleware accept
\* a credential that carries an expiresAt only if it is strictly later than
\* now; expiresAt = now is rejected.
C6_ExpiryBoundary ==
  (/\ Answered("verifyClerkToken") \/ Answered("Worker.authMiddleware")
   /\ Accepts(authResult)
   /\ "number" \in DOMAIN authHeader.parts[2].value.exp)
    => authHeader.parts[2].value.exp.number > NowSeconds

\* everything verify(credential) asks of a credential
VerifyConditions(header) ==
  /\ Decodes(header)
  /\ LET payload == header.parts[2].value IN
       /\ "number" \in DOMAIN payload.exp
       /\ payload.exp.number > NowSeconds
       /\ payload.iss # Undefined
       /\ StartsWith(payload.iss, <<"https://", "clerk.">>)
       /\ payload.sub \notin {Undefined, Str("")}

\* C7. verifyClerkToken returns the subject if and only if the header is a
\* Bearer header of exactly 3 segments whose payload decodes, expiresAt is
\* after now, the issuer matches and the subject is present and non-empty;
\* otherwise it returns an auth failure (null, or at least a value that callers'
\* `if (!userId)` takes for one).
C7_VerifyIff ==
  Answered("verifyClerkToken") =>
    IF VerifyConditions(authHeader)
    THEN authResult.result = authHeader.parts[2].value.sub
    ELSE ~Truthy(authResult.result)

\* C8. Every authentication failure is answered with status 401 and the body
\* {error: 'Unauthorized'}, the same for every kind of failure and in every
\* middleware.
C8_GenericUnauthorized ==
  (/\ Answered("Worker.authMiddleware") \/ Answered("clerkAuthMiddleware")
        \/ Answered("jwtAuthMiddleware")
   /\ "next" \notin DOMAIN authResult.result)
    => authResult.result = Response(401, [error |-> "Unauthorized"])


(* ==================== properties of the HTTP endpoints ================== *)
\* C5. Every protected endpoint answers 401 and performs no session-store
\* operation when the request carries no credential or one that fails
\* verification, and a handler runs only with userId equal to the subject of
\* the verified credential.
C5_ProtectedEndpoints ==
  [][/\ (/\ context.pc = "authMiddleware"
         /\ context' # context
         /\ ~VerifyConditions(context.request.authorization))
        => (/\ context' = NoContext
            /\ httpResponse'.status = 401
            /\ UNCHANGED storeVars)
     /\ (context.pc = "authMiddleware" /\ context'.pc = "handler")
        => Str(context'.userId) = context.request.authorization.parts[2].value.sub]_vars

(* ================== properties of upstream failures ===================== *)
\* the text callOpenCodeAPI returns when the upstream call failed
UpstreamFailed(response) ==
  response \in {callOpenCodeAPI(outcome) : outcome \in UpstreamOutcomes \ {"ok"}}

\* C11. When the upstream completion call fails (network error, non-success
\* status, malformed body), the relay appends no assistant message: after the
\* failed call the history holds no assistant entry that the call produced.
C11_NoAssistantOnFailure ==
  \A call \in Calls :
    (calls[call].pc = "returned" /\ UpstreamFailed(calls[call].response)) =>
      \A s \in DOMAIN accepted : \A i \in 1..Len(accepted[s]) :
        ~(accepted[s][i].by = call /\ accepted[s][i].role = "assistant")

\* C12. POST /prompt answers 500 with success:false when the upstream call
\* failed, and 200 with success:true only when the upstream returned assistant
\* text.
C12_PromptStatus ==
  ("status" \in DOMAIN httpResponse /\ "success" \in DOMAIN httpResponse.body) =>
    IF httpResponse.body.success
    THEN httpResponse.status = 200 /\ ~UpstreamFailed(httpResponse.body.response)
    ELSE httpResponse.status = 500

(* ==================== termination of the relay ========================== *)
\* What the event loop guarantees to a sendPrompt call: the await of every
\* store operation resolves, so the continuation after it runs. The await of
\* fetch() inside callOpenCodeAPI resolves only when the upstream answers or
\* the connection fails: the call passes no AbortSignal and sets no timer, so
\* nothing in the program makes sendPrompt_callOpenCodeAPI happen.
RelayFairness ==
  \A call \in Calls :
    /\ WF_vars(sendPrompt_getSession(call))
    /\ WF_vars(sendPrompt_addUserMessage(call))
    /\ WF_vars(sendPrompt_getConversationHistory(call))
    /\ WF_vars(sendPrompt_addAssistantMessage(call))

SpecRelayLive == InitRelay /\ [][NextRelay]_vars /\ RelayFairness

\* C13. Every sendPrompt call eventually returns a reply or an error to its
\* caller, even if the upstream completion endpoint never responds.
C13_RelayReturns ==
  \A call \in Calls :
    (calls[call].pc # "idle") ~> (calls[call].pc \in {"returned", "threw"})

(* ================== properties of POST /api/prompt ====================== *)
\* the id resolves for the requester: the session exists and is theirs
Resolves(sessionId, userId) ==
  sessionId \in DOMAIN sessions /\ sessions[sessionId].userId = userId

\* the handler of POST /api/prompt takes its step
PromptHandlerStep == Handles("POST /api/prompt") /\ context' # context

C15_OmittedSessionId ==
  [][/\ (/\ PromptHandlerStep
         /\ context.request.body.prompt \notin {Undefined, Str("")}
         /\ context.request.id = NoId)
        => \E id \in (DOMAIN sessions') \ (DOMAIN sessions) :
             /\ DOMAIN sessions' = (DOMAIN sessions) \cup {id}
             /\ id \notin DOMAIN createdBy
             /\ sessions'[id].userId = context.userId
             /\ \A other \in DOMAIN sessions : sessions'[other] = sessions[other]
             /\ context'.pc = "sendPrompt"
             /\ context'.actualSessionId = id
             /\ calls'[context'.call].sessionId = id
     /\ (/\ context.pc = "sendPrompt"
         /\ context' # context
         /\ context.request.id = NoId)
        => (/\ httpResponse'.status = 200
            /\ httpResponse'.body.sessionId = context.actualSessionId
            /\ Resolves(context.actualSessionId, context.userId)
            /\ UNCHANGED storeVars)]_vars

\* a request without sessionId whose relay has returned: the session the
\* handler created is the requester's and holds the prompt and the reply
C15_Witness ==
  /\ context.pc = "sendPrompt"
  /\ context.request.id = NoId
  /\ calls[context.call].pc = "returned"
  /\ Resolves(context.actualSessionId, context.userId)
  /\ DOMAIN sessions = {context.actualSessionId}
  /\ Len(accepted[context.actualSessionId]) = 2

\* C16. POST /prompt with a missing or empty prompt answers 400 and changes no
\* state, whether or not the body carries a sessionId: no session is created,
\* no message is appended, no relay is started.
C16_PromptRequired ==
  [][(/\ PromptHandlerStep
      /\ context.request.body.prompt \in {Undefined, Str("")})
     => (/\ context' = NoContext
         /\ httpResponse' = Response(400, [error |-> "prompt is required"])
         /\ UNCHANGED <<storeVars, ghostVars, calls>>)]_vars

\* a prompt request was answered 400 before any session existed: the body had
\* no usable sessionId, and still no session was created
C16_Witness ==
  /\ httpResponse = Response(400, [error |-> "prompt is required"])
  /\ createdBy = EmptyMap
  /\ sessions = EmptyMap
  /\ \A call \in Calls : calls[call].pc = "idle"

(* ================ properties of addMessage and deletion ================= *)
\* the arrays the owner of s can read back as the history of s
OwnerHistories(s) == Store_getConversationHistory_results(s, sessions[s].userId)

\* C17. addMessage(s, u, m) with u not the owner of s, or with s nonexistent,
\* raises an error and leaves every history unchanged; with u the owner it
\* appends m as the last element of the history of s in one step and changes
\* no other session's history.
C17_AddMessage ==
  [][(impl \in StateImpls) =>
       /\ \A s \in KnownIds, u \in Users, m \in DirectMessages :
            ~Resolves(s, u) =>
              /\ IsThrow(Store_addMessage_result(s, u))
              /\ InMemory_addMessage_messages(s, u, m) = messages
              /\ DurableObject_addMessage_messagesTable(s, u, m) = messagesTable
       /\ \A s \in (DOMAIN accepted) \cap (DOMAIN accepted') :
            Len(accepted'[s]) = Len(accepted[s]) + 1 =>
              (LET m == Plain(accepted'[s][Len(accepted'[s])]) IN
               /\ \A after \in OwnerHistories(s)' :
                    \E before \in OwnerHistories(s) :
                      after = History(Append(before.history, m))
               /\ \A t \in (DOMAIN accepted) \ {s} :
                    t \in DOMAIN sessions' /\ OwnerHistories(t)' = OwnerHistories(t))]_vars

\* the session ids under which the store holds messages
MessageOwners ==
  IF impl = InMemoryImpl THEN DOMAIN messages
  ELSE {messagesTable[i].session_id : i \in 1..Len(messagesTable)}

\* C18. Cascade: in every reachable state each stored message belongs to a
\* session that exists, so deleting a session removes its whole history in the
\* same step, however deleteSession interleaves with the addMessage calls of
\* relays, including relays that are awaiting the upstream call.
C18_Cascade ==
  impl \in StateImpls => MessageOwners \subseteq DOMAIN sessions

\* a relay is awaiting the upstream call, its user message was stored, and in
\* the meantime its session was deleted: no message is left in the store
C18_Witness ==
  /\ impl = DurableObjectImpl
  /\ \E call \in Calls :
       /\ calls[call].pc = "callOpenCodeAPI"
       /\ calls[call].conversationHistory # <<>>
       /\ calls[call].sessionId \in (DOMAIN createdBy) \ (DOMAIN sessions)
  /\ messagesTable = <<>>

\* the ids of the sessions that were deleted: once returned by createSession,
\* no longer in the store
DeletedIds == (DOMAIN createdBy) \ (DOMAIN sessions)

\* no user can read s: getSession does not succeed, the history is empty
Unreadable(s) ==
  \A u \in Users :
    CASE impl = SessionManagerImpl -> SessionManager_getSession_result(s, u) = Undefined
      [] impl = SdkImpl -> Sdk_getSession_result(s, u) = Undefined
      [] impl \in StateImpls ->
           /\ OpenCodeService_getSession_result(s, u) = Undefined
           /\ Store_getConversationHistory_results(s, u) = {History(<<>>)}
      [] OTHER -> TRUE

\* C19. Deletion is irreversible: once a session was deleted, no operation of
\* any user makes getSession(s, .) succeed or the history of s non-empty again.
C19_DeletionIrreversible ==
  [][\A s \in DeletedIds : Unreadable(s)']_vars

(* ====================== properties of session ids ======================= *)
\* the id the next createSession returns, sdkId being what the SDK answers
NextId(sdkId) ==
  CASE impl = SessionManagerImpl -> SessionManager_newId
    [] impl = InMemoryImpl -> InMemory_newId
    [] impl = DurableObjectImpl -> DurableObject_newId
    [] impl = SdkImpl -> Sdk_newId(sdkId)
    [] OTHER -> handleSessionRoute_newId

\* C20. createSession always succeeds and returns an id different from every
\* id returned before, ids of deleted sessions and ids allocated at the same
\* clock value included, in every implementation that creates sessions.
C20_FreshIds ==
  /\ impl = DurableObjectImpl => ~DurableObject_createSession_throws
  /\ \A sdkId \in (SdkIds \ sdkIssued) \cup {SdkNoId} :
       NextId(sdkId) \notin DOMAIN createdBy

DeleteImpls == StateImpls \cup {SdkImpl}

DeleteResult(sessionId, userId) ==
  IF impl = SdkImpl THEN Sdk_deleteSession_result(sessionId, userId)
  ELSE Store_deleteSession_result(sessionId, userId)

\* the sessions left by deleteSession(sessionId, userId)
DeleteSessions(sessionId, userId) ==
  CASE impl = SdkImpl -> Sdk_deleteSession_sessions(sessionId, userId)
    [] impl = InMemoryImpl -> InMemory_deleteSession_sessions(sessionId, userId)
    [] OTHER -> DurableObject_deleteSession_sessions(sessionId, userId)

ListImpls == StateImpls \cup {WorkerStubImpl}

\* what listing the sessions of userId can return
ListResults(userId) ==
  IF impl = WorkerStubImpl
  THEN {handleSessionRoute_getSessions_result(userId)}
  ELSE Store_listUserSessions_results(userId)

\* the sessions userId created and has not deleted
LiveIdsOf(userId) == {s \in DOMAIN accepted : createdBy[s] = userId}

\* C23. listSessions(u) returns exactly the currently existing sessions owned
\* by u, each once, and never a session owned by another user.
C23_ListExact ==
  impl \in ListImpls =>
    \A u \in Users : \A r \in ListResults(u) :
      /\ {r.list[i].id : i \in 1..Len(r.list)} = LiveIdsOf(u)
      /\ Len(r.list) = Cardinality(LiveIdsOf(u))
      /\ \A i \in 1..Len(r.list) : r.list[i].userId = u

\* C24. listSessions(u) returns u's sessions most-recent-first by creation
\* time, in InMemorySessionStore and in SessionDurableObject: no session comes
\* before one that was created later.
C24_ListMostRecentFirst ==
  impl \in StateImpls =>
    \A u \in Users : \A r \in Store_listUserSessions_results(u) :
      \A i, j \in 1..Len(r.list) : i < j => r.list[i].createdAt >= r.list[j].createdAt

(* ================= properties of DELETE /sessions/{id} ================== *)
\* the three routing layers and the store each of them deletes from
RoutingImpls == {SessionManagerImpl, WorkerStubImpl} \cup StateImpls

\* what DELETE /sessions/{sessionId} answers to the authenticated userId
DeleteResponse(sessionId, userId) ==
  CASE impl = SessionManagerImpl -> ApiApp_deleteSessions_response(sessionId, userId)
    [] impl = WorkerStubImpl -> handleSessionRoute_deleteSessions_response(sessionId, userId)
    [] OTHER -> Worker_deleteSessions_response(sessionId, userId)

\* the request removes a stored session that userId owns
DeletesOwned(sessionId, userId) ==
  /\ sessionId \in DOMAIN sessions
  /\ sessions[sessionId].userId = userId
  /\ CASE impl = SessionManagerImpl ->
            sessionId \notin DOMAIN SessionManager_deleteSession_sessions(sessionId, userId)
       [] impl \in StateImpls -> sessionId \notin DOMAIN DeleteSessions(sessionId, userId)
       [] OTHER -> FALSE

\* C25. DELETE /sessions/{id} answers 204 only if that request deleted a
\* session owned by the requester and 404 when the id does not exist or is
\* owned by another user, in ApiApp, in the Hono Worker and in worker.ts.
C25_DeleteStatus ==
  impl \in RoutingImpls =>
    \A s \in KnownIds : \A u \in Users :
      DeleteResponse(s, u).status = IF DeletesOwned(s, u) THEN 204 ELSE 404

(* ===================== properties of UserStorage ======================== *)
\* C26. UserStorage isolates users: for two different user ids u1 and u2, a
\* file written by u1 is never what readFile(u2, name) returns and never among
\* listFiles(u2); deleteFile(u2, name) leaves every file of u1 in place and
\* returns false when u2 has no file of that name.
C26_StorageIsolation ==
  \A u1 \in Callers : \A u2 \in Callers \ {u1} :
    /\ \A name \in FileNames :
         /\ UserStorage_readFile_result(u2, name) # Content(u1)
         /\ \A path \in DOMAIN files :
              files[path] = Content(u1) => path \in DOMAIN UserStorage_deleteFile_files(u2, name)
         /\ UserStorage_readFile_result(u2, name) # Content(u2) =>
              UserStorage_deleteFile_result(u2, name) = Bool(FALSE)
    /\ \A listed \in UserStorage_listFiles_result(u2).names :
         files[Append(UserStorage_getUserDir(u2), listed)] # Content(u1)

(* ==================== properties of SandboxManager ====================== *)
\* C30. SandboxManager gives different users different sandboxes: for two
\* different user ids getSandboxForUser asks getSandbox for different sandbox
\* ids and makes different workspace directories, and getUserWorkspacePath
\* returns different paths.
C30_SandboxPerUser ==
  /\ \A u1 \in Callers : \A u2 \in Callers \ {u1} :
       SandboxManager_getUserWorkspacePath_result(u1) # SandboxManager_getUserWorkspacePath_result(u2)
  /\ \A call1 \in getSandboxCalls : \A call2 \in getSandboxCalls :
       call1.userId # call2.userId => call1.id # call2.id /\ call1.mkdir # call2.mkdir

(* =================== properties of concurrent relays ==================== *)
\* no sendPrompt call is between its first and its last step
NoRelayInFlight == \A call \in Calls : calls[call].pc \in {"idle", "returned", "threw"}

\* user, assistant, user, assistant, ...
Alternates(history) ==
  \A i \in 1..Len(history) : history[i].role = IF i % 2 = 1 THEN "user" ELSE "assistant"

\* C27. Whenever no relay is in flight, the history of every session
\* alternates user, assistant, starting with user; and the history a relay
\* forwards upstream ends with that relay's own prompt, however the relays on
\* one session interleave.
C27_RelayAlternation ==
  /\ NoRelayInFlight =>
       \A s \in DOMAIN sessions :
         \A h \in Store_getConversationHistory_results(s, sessions[s].userId) :
           Alternates(h.history)
  /\ \A call \in Calls :
       calls[call].pc = "callOpenCodeAPI" =>
         /\ calls[call].conversationHistory # <<>>
         /\ calls[call].conversationHistory[Len(calls[call].conversationHistory)]
              = UserMessage(calls[call].prompt)

(* ================ the two token verifiers side by side ================== *)
\* C29. The Worker's authMiddleware and verifyClerkToken decide alike on every
\* credential at every clock value: one lets the request through exactly when
\* the other returns a user id, and then it is the same user id.
C29_SameDecision ==
  LET userId == verifyClerkToken(authHeader)
      answer == Worker_authMiddleware(authHeader)
  IN /\ Truthy(userId) <=> "next" \in DOMAIN answer
     /\ Truthy(userId) /\ "next" \in DOMAIN answer => answer.next = userId

(* ================= properties of the deployed worker ==================== *)
\* C28. A session created by a successful POST /api/sessions or POST
\* /api/prompt is there for its owner in every later request until it is
\* deleted: whenever a handler of the deployed worker runs, every session
\* created and not deleted resolves for the user who created it.
C28_SameStore ==
  context.pc = "handler" =>
    \A s \in DOMAIN accepted : Resolves(s, createdBy[s])

====
